---- MODULE Spec2Model ----
(***************************************************************************)
(* SRT access (ingest) and access_output (egress) modules of VLC.          *)
(*                                                                         *)
(* One bridge instance is modelled; Init chooses its direction:            *)
(*   "access"      src/modules/access/srt.c         (network -> pull)      *)
(*   "access_out"  src/modules/access_output/srt.c  (push -> network)      *)
(*                                                                         *)
(* Three threads of control: the controller (Open, Close), the             *)
(* application (BlockSRT or Write) and the pump thread (Thread).  A        *)
(* critical section of the fifo lock is one atomic step.  The block fifo   *)
(* (block_FifoPut, block_FifoGet, vlc_fifo_Wait) and the thread primitives *)
(* (vlc_clone, vlc_cancel, vlc_join) are not part of the two source files; *)
(* they are modelled from the queue contract of the specification and are  *)
(* marked so in the model map.                                             *)
(***************************************************************************)
EXTENDS Integers, Sequences, FiniteSets, Bags, TLC

\* ------------------------------------------------------------------ bounds
\* Packets the transport delivers to the ingest pump.
MaxPkts == 2
\* Buffers the application submits through Write in total.
MaxBufs == 2
\* Largest byte count of a receive, and largest submitted buffer length.
MaxLen == 2
\* Number of times the host calls Close on the instance.
MaxClose == 2

\* --------------------------------------------------------------- constants
\* The transport's error value (srt_socket, srt_connect, srt_recvmsg,
\* srt_sendmsg2); the egress Open compares the handle with it literally.
SRT_ERROR == -1
\* The value of every field of p_sys after calloc.
ZeroHandle == 0
\* The handle a successful srt_socket returns.
Handle == 1

\* Values of the "chunk-size" option (an unchecked integer option).
ChunkSizes == {0, 1, 2}

Dirs == {"access", "access_out"}

\* NULL, as a block pointer.
NoBlock == [id |-> 0, p_buffer |-> 0, i_buffer |-> 0]

\* Mutant of __MIN: the whole of what remains, whatever the chunk size.
__MIN_First(a, b) == a

__MIN(a, b) == IF a < b THEN a ELSE b

\* No Control call in progress.
NoControl == [query |-> "none", nc |-> 0, i_ret |-> "none", wrote |-> "none",
              b |-> FALSE, pts |-> 0]

VARIABLES
    dir,          \* which module this instance is
    i_chunk_size, \* var_InheritInteger( "chunk-size" )
    ctl_pc,       \* controller: position in Open / Close
    ret_open,     \* value returned by Open
    sock,         \* p_sys->sock
    handle_state, \* state of Handle in the transport: unopened, open, closed
    fifo,         \* p_sys->fifo: "NULL", "alive", "released"
    queue,        \* contents of the fifo
    b_woken,      \* p_sys->b_woken (ingest)
    thread,       \* p_sys->thread: none, running, exited, cancelled, joined
    cancel,       \* a cancellation request is pending on the thread
    pump_pc,      \* pump thread: position in Thread
    pkt,          \* pump thread: the block it holds
    app_pc,       \* application thread: idle, wait (in vlc_fifo_Wait), control, write
    signalled,    \* the waiter in vlc_fifo_Wait has been signalled
    eof,          \* *eof of the stream
    pulled,       \* what successive BlockSRT calls returned (NoBlock: NULL, EOF)
    rx,           \* what successive srt_recvmsg calls reported
    p_buffer,     \* Write: the rest of the chain
    i_len,        \* Write: i_len
    writes,       \* completed Write calls: ids of the chain and return value
    submitted,    \* lengths of the buffers handed to Write, by id
    enq,          \* ids put on the egress fifo, in order
    sends,        \* srt_sendmsg2 calls: block id, offset, length, result
    freed,        \* bag of the ids of released blocks
    leaked,       \* ids of blocks no component holds any more
    ev,           \* resource events: <<call, operation, argument>>
    n_close,      \* Close calls started
    control,      \* the Control call in progress: query and answer
    polled,       \* ingest pump: what poll reported in this iteration
    spin          \* egress pump: parity of the sends the log does not keep

lifeVars == <<ctl_pc, ret_open, sock, handle_state, fifo, ev, n_close>>
thrVars  == <<thread, cancel, pump_pc, pkt>>
inVars   == <<b_woken, signalled, eof, pulled, rx>>
outVars  == <<p_buffer, i_len, writes, submitted, enq, sends>>
vars == <<dir, i_chunk_size, ctl_pc, ret_open, sock, handle_state, fifo,
          queue, b_woken, thread, cancel, pump_pc, pkt, app_pc, signalled,
          eof, pulled, rx, p_buffer, i_len, writes, submitted, enq, sends,
          freed, leaked, ev, n_close, control, polled, spin>>

\* ----------------------------------------------------------------- helpers
IdsOf(s) == [i \in 1..Len(s) |-> s[i].id]

RECURSIVE FreeAll(_, _)
FreeAll(bag, s) ==
    IF s = <<>> THEN bag ELSE FreeAll(bag (+) SetToBag({Head(s).id}), Tail(s))

block_Release(bag, b) == bag (+) SetToBag({b.id})

Count(op, call) == Cardinality({i \in 1..Len(ev) : ev[i][1] = call /\ ev[i][2] = op})

\* srt_close( v ): closes the handle when v names the open handle.
srt_close_state(hs, v) == IF v = Handle /\ hs = "open" THEN "closed" ELSE hs

Init ==
    /\ dir \in Dirs
    /\ i_chunk_size \in ChunkSizes
    /\ ctl_pc = "Created"
    /\ ret_open = "none"
    /\ sock = ZeroHandle
    /\ handle_state = "unopened"
    /\ fifo = "NULL"
    /\ queue = <<>>
    /\ b_woken = FALSE
    /\ thread = "none"
    /\ cancel = FALSE
    /\ pump_pc = "none"
    /\ pkt = NoBlock
    /\ app_pc = "idle"
    /\ signalled = FALSE
    /\ eof = FALSE
    /\ pulled = <<>>
    /\ rx = <<>>
    /\ p_buffer = <<>>
    /\ i_len = 0
    /\ writes = <<>>
    /\ submitted = <<>>
    /\ enq = <<>>
    /\ sends = <<>>
    /\ freed = EmptyBag
    /\ leaked = {}
    /\ ev = <<>>
    /\ n_close = 0
    /\ control = NoControl
    /\ polled = "none"
    /\ spin = FALSE

\* -------------------------------------------------------------------- Open
\* The calls of Open that can fail, in program order.
OpenSteps(d) ==
    IF d = "access"
    THEN <<"calloc", "vlc_UrlParse", "vlc_getaddrinfo", "srt_socket",
           "srt_connect", "block_FifoNew", "vlc_clone">>
    ELSE <<"var_Create", "calloc", "strdup", "vlc_getaddrinfo", "srt_socket",
           "srt_connect", "block_FifoNew", "vlc_clone">>

\* Failures answered by an early return, before anything but p_sys exists.
EarlyReturn == {"var_Create", "calloc", "strdup"}

StepIndex(d, s) == CHOOSE i \in 1..Len(OpenSteps(d)) : OpenSteps(d)[i] = s

\* fp is the call that fails, "none" when none does.
Reached(d, fp, s) == fp = "none" \/ StepIndex(d, s) < StepIndex(d, fp)

\* p_sys->sock when Open stops at fp.
SockAt(d, fp) ==
    IF Reached(d, fp, "srt_socket") THEN Handle
    ELSE IF fp = "srt_socket" THEN SRT_ERROR
    ELSE ZeroHandle

\* p_sys->fifo when Open stops at fp.
FifoAt(d, fp) == IF Reached(d, fp, "block_FifoNew") THEN "alive" ELSE "NULL"

\* Resources acquired on the way to fp.
AcquireEvents(d, fp) ==
    (IF Reached(d, fp, "srt_socket") THEN << <<0, "srt_socket", Handle>> >> ELSE <<>>)
    \o (IF Reached(d, fp, "block_FifoNew") THEN << <<0, "block_FifoNew", 0>> >> ELSE <<>>)
    \o (IF fp = "none" THEN << <<0, "vlc_clone", 0>> >> ELSE <<>>)

\* Mutant of FailedEvents: the failure path forgets the fifo.
FailedEvents_LeakFifo(d, sk, ff) ==
    IF d = "access" \/ sk # SRT_ERROR THEN << <<0, "srt_close", sk>> >> ELSE <<>>

\* The failed: label.  The ingest module closes p_sys->sock whatever it
\* holds; the egress module closes it unless it equals -1.
FailedEvents(d, sk, ff) ==
    (IF ff = "alive" THEN << <<0, "block_FifoRelease", 0>> >> ELSE <<>>)
    \o (IF d = "access" \/ sk # SRT_ERROR
        THEN << <<0, "srt_close", sk>> >> ELSE <<>>)

OpenReturn(fp) ==
    IF fp = "none" THEN "VLC_SUCCESS"
    ELSE IF fp \in EarlyReturn THEN "VLC_ENOMEM"
    ELSE "VLC_EGENERIC"

Open ==
    /\ ctl_pc = "Created"
    /\ \E fp \in {"none"} \cup {OpenSteps(dir)[i] : i \in 1..Len(OpenSteps(dir))} :
         LET sk  == SockAt(dir, fp)
             ff  == FifoAt(dir, fp)
             acq == AcquireEvents(dir, fp)
             rel == IF fp = "none" \/ fp \in EarlyReturn
                    THEN <<>> ELSE FailedEvents(dir, sk, ff)
             closes == \E i \in 1..Len(rel) : rel[i][2] = "srt_close"
             frees  == \E i \in 1..Len(rel) : rel[i][2] = "block_FifoRelease"
         IN /\ ret_open' = OpenReturn(fp)
            /\ ctl_pc' = IF fp = "none" THEN "Streaming" ELSE "OpenFailed"
            /\ sock' = sk
            /\ ev' = ev \o acq \o rel
            /\ handle_state' =
                 IF sk # Handle THEN "unopened"
                 ELSE IF closes THEN srt_close_state("open", sk)
                 ELSE "open"
            /\ fifo' = IF frees THEN "released" ELSE ff
            /\ thread' = IF fp = "none" THEN "running" ELSE "none"
            /\ pump_pc' = IF fp = "none"
                          THEN (IF dir = "access" THEN "poll" ELSE "get")
                          ELSE "none"
    /\ UNCHANGED <<dir, i_chunk_size, spin, control, polled, queue, b_woken, cancel, pkt, app_pc,
                   signalled, eof, pulled, rx, freed, leaked, n_close>>
    /\ UNCHANGED outVars

\* ------------------------------------------------------------- block fifo
\* vlc_fifo_Signal: wakes the thread waiting in vlc_fifo_Wait, if any.
vlc_fifo_Signal(pc, s) == IF pc = "wait" THEN TRUE ELSE s

\* block_FifoPut / vlc_fifo_QueueUnlocked: appends one entry.
block_FifoPut(q, b) == Append(q, b)

\* ------------------------------------------------- ingest: Thread (pump)
\* Top of the loop: srt_socket_get_fd, the check of the descriptor, poll.
\* poll is the cancellation point of the loop: a pending cancellation ends
\* the thread there, and the code after the loop is not run.
IngestPoll ==
    /\ dir = "access" /\ thread = "running" /\ pump_pc = "poll"
    /\ \E r \in {"badfd", "error", "timeout", "readable"} :
         IF r = "badfd"
         THEN pump_pc' = "exit" /\ thread' = thread /\ polled' = polled
         ELSE IF cancel
         THEN pump_pc' = "done" /\ thread' = "cancelled" /\ polled' = polled
         ELSE IF r = "error"
         THEN pump_pc' = "exit" /\ thread' = thread /\ polled' = r
         ELSE pump_pc' = "alloc" /\ thread' = thread /\ polled' = r
    /\ UNCHANGED <<dir, i_chunk_size, spin, control, queue, cancel, pkt, app_pc, freed, leaked>>
    /\ UNCHANGED <<lifeVars, inVars, outVars>>

\* block_Alloc( i_chunk_size ): NULL, or a block of i_chunk_size bytes.
IngestAlloc ==
    /\ dir = "access" /\ thread = "running" /\ pump_pc = "alloc"
    /\ \/ pump_pc' = "exit" /\ pkt' = pkt
       \/ /\ pkt' = [id |-> Len(rx) + 1, p_buffer |-> 0, i_buffer |-> i_chunk_size]
          /\ pump_pc' = "recv"
    /\ UNCHANGED <<dir, i_chunk_size, spin, control, polled, queue, thread, cancel, app_pc, freed, leaked>>
    /\ UNCHANGED <<lifeVars, inVars, outVars>>

\* Mutant of IngestDeliver: the length of the block is left at the size
\* it was allocated with.
IngestDeliver_KeepsChunk(stat) ==
    /\ queue' = block_FifoPut(queue, pkt)
    /\ signalled' = vlc_fifo_Signal(app_pc, signalled)

\* pkt->i_buffer = stat; block_FifoPut( p_sys->fifo, pkt );
IngestDeliver(stat) ==
    /\ queue' = block_FifoPut(queue, [pkt EXCEPT !.i_buffer = stat])
    /\ signalled' = vlc_fifo_Signal(app_pc, signalled)

\* srt_recvmsg and what follows it in the iteration.
IngestRecv ==
    /\ dir = "access" /\ thread = "running" /\ pump_pc = "recv"
    /\ \E stat \in {SRT_ERROR} \cup 0..MaxLen :
         IF stat = SRT_ERROR
         THEN /\ freed' = block_Release(freed, pkt)
              /\ pump_pc' = "exit"
              /\ UNCHANGED <<queue, signalled, rx>>
         ELSE /\ Len(rx) < MaxPkts
              /\ rx' = Append(rx, [id |-> pkt.id, stat |-> stat])
              /\ IngestDeliver(stat)
              /\ pump_pc' = "poll"
              /\ freed' = freed
    /\ pkt' = NoBlock
    /\ polled' = "none"
    /\ UNCHANGED <<dir, i_chunk_size, spin, control, thread, cancel, app_pc, leaked,
                   b_woken, eof, pulled>>
    /\ UNCHANGED <<lifeVars, outVars>>

\* srt_recvmsg blocks in the receiving mode Open leaves the socket in; a
\* cancellation acted on inside it ends the thread with no cleanup handler
\* installed for pkt.  Whether the call is a cancellation point depends on
\* the transport library, hence a choice.
IngestCancelInRecv ==
    /\ dir = "access" /\ thread = "running" /\ pump_pc = "recv" /\ cancel
    /\ thread' = "cancelled"
    /\ pump_pc' = "done"
    /\ leaked' = leaked \cup {pkt.id}
    /\ pkt' = NoBlock
    /\ polled' = "none"
    /\ UNCHANGED <<dir, i_chunk_size, spin, control, queue, cancel, app_pc, freed>>
    /\ UNCHANGED <<lifeVars, inVars, outVars>>

\* After the loop: lock, b_woken = true, signal, unlock, return.
IngestExit ==
    /\ dir = "access" /\ thread = "running" /\ pump_pc = "exit"
    /\ b_woken' = TRUE
    /\ signalled' = vlc_fifo_Signal(app_pc, signalled)
    /\ thread' = "exited"
    /\ pump_pc' = "done"
    /\ UNCHANGED <<dir, i_chunk_size, spin, control, polled, queue, cancel, pkt, app_pc, freed, leaked,
                   eof, pulled, rx>>
    /\ UNCHANGED <<lifeVars, outVars>>

\* ------------------------------------------------------ ingest: BlockSRT
\* Mutant of MustWait: BlockSRT never waits.
MustWait_Never == FALSE

\* The loop of BlockSRT leaves the thread waiting.
MustWait == queue = <<>> /\ ~b_woken

\* vlc_fifo_DequeueUnlocked and the lines up to the return.
BlockSRT_Take ==
    /\ pulled' = Append(pulled, IF queue = <<>> THEN NoBlock ELSE Head(queue))
    /\ queue' = IF queue = <<>> THEN queue ELSE Tail(queue)
    /\ eof' = (eof \/ queue = <<>>)
    /\ b_woken' = FALSE
    /\ app_pc' = "idle"
    /\ signalled' = FALSE

\* From the lock to vlc_fifo_Wait or to the return.
BlockSRT_Body ==
    IF MustWait
    THEN /\ app_pc' = "wait"
         /\ signalled' = FALSE
         /\ UNCHANGED <<queue, b_woken, eof, pulled>>
    ELSE BlockSRT_Take

\* A call of BlockSRT by the application.
BlockSRT ==
    /\ dir = "access" /\ ctl_pc = "Streaming" /\ app_pc = "idle"
    /\ BlockSRT_Body
    /\ UNCHANGED <<dir, i_chunk_size, spin, control, polled, freed, leaked, rx>>
    /\ UNCHANGED <<lifeVars, thrVars, outVars>>

\* Return from vlc_fifo_Wait once signalled, and round the loop again.
BlockSRT_Wake ==
    /\ dir = "access" /\ fifo = "alive" /\ app_pc = "wait" /\ signalled
    /\ BlockSRT_Body
    /\ UNCHANGED <<dir, i_chunk_size, spin, control, polled, freed, leaked, rx>>
    /\ UNCHANGED <<lifeVars, thrVars, outVars>>

\* -------------------------------------------------------- ingest: Control
\* The queries an application makes: the five Control answers, and one of
\* the others.
Queries == {"STREAM_CAN_SEEK", "STREAM_CAN_FASTSEEK", "STREAM_CAN_PAUSE",
            "STREAM_CAN_CONTROL_PACE", "STREAM_GET_PTS_DELAY",
            "STREAM_GET_SIZE"}

\* Values of the network-caching option, in milliseconds.
NetworkCaching == {0, 300}

\* Mutant of ControlAnswer: the delay is the option's value, unscaled.
ControlAnswer_Unscaled(i_query, nc) ==
    IF i_query \in {"STREAM_CAN_SEEK", "STREAM_CAN_FASTSEEK",
                    "STREAM_CAN_PAUSE", "STREAM_CAN_CONTROL_PACE"}
    THEN [query |-> i_query, nc |-> 0, i_ret |-> "VLC_SUCCESS",
          wrote |-> "bool", b |-> FALSE, pts |-> 0]
    ELSE IF i_query = "STREAM_GET_PTS_DELAY"
    THEN [query |-> i_query, nc |-> nc, i_ret |-> "VLC_SUCCESS",
          wrote |-> "int64", b |-> FALSE, pts |-> nc]
    ELSE [query |-> i_query, nc |-> 0, i_ret |-> "VLC_EGENERIC",
          wrote |-> "none", b |-> FALSE, pts |-> 0]

\* The switch of Control: what is written through the argument (wrote: the
\* type of the pointer written through; b or pts: the value) and i_ret.
\* nc is the value of network-caching where the switch reads it, else 0.
ControlAnswer(i_query, nc) ==
    IF i_query \in {"STREAM_CAN_SEEK", "STREAM_CAN_FASTSEEK",
                    "STREAM_CAN_PAUSE", "STREAM_CAN_CONTROL_PACE"}
    THEN [query |-> i_query, nc |-> 0, i_ret |-> "VLC_SUCCESS",
          wrote |-> "bool", b |-> FALSE, pts |-> 0]
    ELSE IF i_query = "STREAM_GET_PTS_DELAY"
    THEN [query |-> i_query, nc |-> nc, i_ret |-> "VLC_SUCCESS",
          wrote |-> "int64", b |-> FALSE, pts |-> 1000 * nc]
    ELSE [query |-> i_query, nc |-> 0, i_ret |-> "VLC_EGENERIC",
          wrote |-> "none", b |-> FALSE, pts |-> 0]

\* A call of Control by the application, on an open stream, up to its
\* return statement.
Control ==
    /\ dir = "access" /\ ctl_pc = "Streaming" /\ app_pc = "idle"
    /\ \E i_query \in Queries, nc \in NetworkCaching :
         control' = ControlAnswer(i_query, nc)
    /\ app_pc' = "control"
    /\ UNCHANGED <<dir, i_chunk_size, spin, polled, queue, freed, leaked>>
    /\ UNCHANGED <<lifeVars, thrVars, inVars, outVars>>

\* return i_ret;
ControlReturn ==
    /\ dir = "access" /\ app_pc = "control"
    /\ control' = NoControl
    /\ app_pc' = "idle"
    /\ UNCHANGED <<dir, i_chunk_size, spin, polled, queue, freed, leaked>>
    /\ UNCHANGED <<lifeVars, thrVars, inVars, outVars>>

\* ------------------------------------------------- egress: Thread (pump)
\* With a chunk size of 0 every send is a send of 0 bytes and the inner loop
\* does not end; the log keeps the first MaxBufs of such sends only, and spin
\* alternates with each of the others.
LogSend(log, e) == IF e.len = 0 /\ Len(log) >= MaxBufs THEN log ELSE Append(log, e)

\* block_FifoGet: tests for cancellation, waits while the fifo is empty (a
\* cancellation point), dequeues the oldest block.
EgressGet ==
    /\ dir = "access_out" /\ thread = "running" /\ pump_pc = "get"
    /\ IF cancel
       THEN /\ thread' = "cancelled"
            /\ pump_pc' = "done"
            /\ UNCHANGED <<queue, pkt>>
       ELSE /\ queue # <<>>
            /\ pkt' = Head(queue)
            /\ queue' = Tail(queue)
            /\ pump_pc' = "loop"
            /\ thread' = thread
    /\ UNCHANGED <<dir, i_chunk_size, spin, control, polled, cancel, app_pc, freed, leaked>>
    /\ UNCHANGED <<lifeVars, inVars, outVars>>

\* The results srt_sendmsg2 can report for a message of n bytes: an error, or
\* the number of bytes the transport accepted.
SendResults(n) == {SRT_ERROR} \cup (IF n = 0 THEN {0} ELSE 1..n)

\* pkt->p_buffer += i_write; pkt->i_buffer -= i_write;
\* (ret, the result of the send, is not consulted.)
Advance(b, i_write, ret) ==
    [b EXCEPT !.p_buffer = b.p_buffer + i_write, !.i_buffer = b.i_buffer - i_write]

\* The lengths of the sends of the inner loop for a block of i_buffer bytes,
\* every send leaving the loop to go on: i_write, then the same for the
\* i_buffer - i_write bytes left.
RECURSIVE DrainLens(_, _)
DrainLens(i_buffer, chunk) ==
    IF i_buffer = 0 THEN <<>>
    ELSE LET i_write == __MIN(i_buffer, chunk)
         IN <<i_write>> \o DrainLens(i_buffer - i_write, chunk)

\* Mutant of AfterSend: a send error ends the thread function.
AfterSend_Exit(ret) == IF ret = SRT_ERROR THEN "exit" ELSE "loop"

\* What the loop does after a send reported ret: "loop" tests pkt->i_buffer
\* again.
AfterSend(ret) == "loop"

\* Mutant of EgressSend: the body runs before the test of pkt->i_buffer, as
\* in a do-while.
EgressSend_DoWhile ==
    /\ dir = "access_out" /\ thread = "running" /\ pump_pc = "loop"
    /\ LET i_write == __MIN(pkt.i_buffer, i_chunk_size)
       IN \E ret \in SendResults(i_write) :
            /\ sends' = LogSend(sends, [id |-> pkt.id, off |-> pkt.p_buffer,
                                         len |-> i_write, ret |-> ret])
            /\ pkt' = Advance(pkt, i_write, ret)
            /\ pump_pc' = AfterSend(ret)
            /\ spin' = (IF i_write = 0 /\ Len(sends) >= MaxBufs THEN ~spin ELSE spin)
    /\ UNCHANGED <<dir, i_chunk_size, control, polled, queue, thread, cancel, app_pc, freed, leaked,
                   p_buffer, i_len, writes, submitted, enq>>
    /\ UNCHANGED <<lifeVars, inVars>>

\* One iteration of while( pkt->i_buffer ).
EgressSend ==
    /\ dir = "access_out" /\ thread = "running" /\ pump_pc = "loop"
    /\ pkt.i_buffer # 0
    /\ LET i_write == __MIN(pkt.i_buffer, i_chunk_size)
       IN \E ret \in SendResults(i_write) :
            /\ sends' = LogSend(sends, [id |-> pkt.id, off |-> pkt.p_buffer,
                                         len |-> i_write, ret |-> ret])
            /\ pkt' = Advance(pkt, i_write, ret)
            /\ pump_pc' = AfterSend(ret)
            /\ spin' = (IF i_write = 0 /\ Len(sends) >= MaxBufs THEN ~spin ELSE spin)
    /\ UNCHANGED <<dir, i_chunk_size, control, polled, queue, thread, cancel, app_pc, freed, leaked,
                   p_buffer, i_len, writes, submitted, enq>>
    /\ UNCHANGED <<lifeVars, inVars>>

\* The cancellation acted on inside srt_sendmsg2: block_cleanup_push( pkt )
\* releases the block.  Whether the call is a cancellation point depends on
\* the transport library, hence a choice beside EgressSend.
EgressCancelInSend ==
    /\ dir = "access_out" /\ thread = "running" /\ pump_pc = "loop"
    /\ pkt.i_buffer # 0 /\ cancel
    /\ thread' = "cancelled"
    /\ pump_pc' = "done"
    /\ freed' = block_Release(freed, pkt)
    /\ pkt' = NoBlock
    /\ UNCHANGED <<dir, i_chunk_size, spin, control, polled, queue, cancel, app_pc, leaked>>
    /\ UNCHANGED <<lifeVars, inVars, outVars>>

\* block_Release( pkt ) after the inner loop.
EgressRelease ==
    /\ dir = "access_out" /\ thread = "running" /\ pump_pc = "loop"
    /\ pkt.i_buffer = 0
    /\ freed' = block_Release(freed, pkt)
    /\ pkt' = NoBlock
    /\ pump_pc' = "get"
    /\ UNCHANGED <<dir, i_chunk_size, spin, control, polled, queue, thread, cancel, app_pc, leaked>>
    /\ UNCHANGED <<lifeVars, inVars, outVars>>

\* ---------------------------------------------------------- egress: Write
\* The chains a call can pass: n buffers of the given lengths, numbered on
\* from the buffers submitted before.
Chain(lens) ==
    [i \in 1..Len(lens) |->
        [id |-> Len(submitted) + i, p_buffer |-> 0, i_buffer |-> lens[i]]]

\* Entry of Write with the chain of buffers p_buffer.
WriteCall ==
    /\ dir = "access_out" /\ ctl_pc = "Streaming" /\ app_pc = "idle"
    /\ \E n \in 1..(MaxBufs - Len(submitted)) :
         \E lens \in [1..n -> 0..MaxLen] :
            /\ p_buffer' = Chain(lens)
            /\ submitted' = submitted \o lens
            /\ writes' = Append(writes, [ids |-> IdsOf(Chain(lens)),
                                         ret |-> 0, done |-> FALSE])
    /\ i_len' = 0
    /\ app_pc' = "write"
    /\ UNCHANGED <<dir, i_chunk_size, spin, control, polled, queue, freed, leaked, enq, sends>>
    /\ UNCHANGED <<lifeVars, thrVars, inVars>>

\* Mutant of WritePut: i_len is assigned, not accumulated.
WritePut_Overwrite ==
    /\ dir = "access_out" /\ app_pc = "write" /\ p_buffer # <<>>
    /\ i_len' = Head(p_buffer).i_buffer
    /\ queue' = block_FifoPut(queue, Head(p_buffer))
    /\ enq' = Append(enq, Head(p_buffer).id)
    /\ p_buffer' = Tail(p_buffer)
    /\ UNCHANGED <<dir, i_chunk_size, spin, control, polled, app_pc, freed, leaked, writes, submitted, sends>>
    /\ UNCHANGED <<lifeVars, thrVars, inVars>>

\* One iteration of while( p_buffer ).
WritePut ==
    /\ dir = "access_out" /\ app_pc = "write" /\ p_buffer # <<>>
    /\ i_len' = i_len + Head(p_buffer).i_buffer
    /\ queue' = block_FifoPut(queue, Head(p_buffer))
    /\ enq' = Append(enq, Head(p_buffer).id)
    /\ p_buffer' = Tail(p_buffer)
    /\ UNCHANGED <<dir, i_chunk_size, spin, control, polled, app_pc, freed, leaked, writes, submitted, sends>>
    /\ UNCHANGED <<lifeVars, thrVars, inVars>>

\* return i_len;
WriteReturn ==
    /\ dir = "access_out" /\ app_pc = "write" /\ p_buffer = <<>>
    /\ writes' = [writes EXCEPT ![Len(writes)] = [@ EXCEPT !.ret = i_len, !.done = TRUE]]
    /\ app_pc' = "idle"
    /\ UNCHANGED <<dir, i_chunk_size, spin, control, polled, queue, freed, leaked, p_buffer, i_len,
                   submitted, enq, sends>>
    /\ UNCHANGED <<lifeVars, thrVars, inVars>>

\* ------------------------------------------------------------------- Close
\* Close has no guard of its own: a call on an instance that was closed
\* before repeats every operation on the thread, the fifo and the handle it
\* already joined, released and closed.  That is undefined behaviour (a
\* second join, a double free); each such operation either crashes the
\* process or goes through.
Again == n_close > 1

\* vlc_cancel( p_sys->thread );
CloseCancel ==
    /\ \/ ctl_pc = "Streaming" /\ app_pc \in {"idle", "wait"}
       \/ ctl_pc = "Closed" /\ n_close < MaxClose
    /\ n_close' = n_close + 1
    /\ cancel' = TRUE
    /\ ev' = Append(ev, <<n_close + 1, "vlc_cancel", 0>>)
    /\ ctl_pc' = "close_join"
    /\ UNCHANGED <<dir, i_chunk_size, spin, control, polled, ret_open, sock, handle_state, fifo, queue,
                   thread, pump_pc, pkt, app_pc, freed, leaked>>
    /\ UNCHANGED <<inVars, outVars>>

\* Mutant of CloseJoin: Close goes on without waiting for the thread.
CloseJoin_Skipped ==
    /\ ctl_pc = "close_join"
    /\ ctl_pc' = "close_release"
    /\ UNCHANGED <<dir, i_chunk_size, spin, control, polled, ret_open, sock, handle_state, fifo, queue,
                   cancel, pump_pc, pkt, app_pc, freed, leaked, n_close, thread, ev>>
    /\ UNCHANGED <<inVars, outVars>>

\* vlc_join( p_sys->thread, NULL ): returns once the thread has ended.
CloseJoin ==
    /\ ctl_pc = "close_join"
    /\ thread \in {"exited", "cancelled", "joined"}
    /\ thread' = "joined"
    /\ ev' = Append(ev, <<n_close, "vlc_join", 0>>)
    /\ ctl_pc' = "close_release"
    /\ UNCHANGED <<dir, i_chunk_size, spin, control, polled, ret_open, sock, handle_state, fifo, queue,
                   cancel, pump_pc, pkt, app_pc, freed, leaked, n_close>>
    /\ UNCHANGED <<inVars, outVars>>

\* block_FifoRelease( p_sys->fifo ): releases the blocks still queued and
\* the fifo.
CloseRelease ==
    /\ ctl_pc = "close_release"
    /\ fifo' = "released"
    /\ freed' = FreeAll(freed, queue)
    /\ queue' = <<>>
    /\ ev' = Append(ev, <<n_close, "block_FifoRelease", 0>>)
    /\ ctl_pc' = "close_sock"
    /\ UNCHANGED <<dir, i_chunk_size, spin, control, polled, ret_open, sock, handle_state, app_pc,
                   leaked, n_close>>
    /\ UNCHANGED <<thrVars, inVars, outVars>>

\* srt_close( p_sys->sock ); and the return.
CloseSock ==
    /\ ctl_pc = "close_sock"
    /\ handle_state' = srt_close_state(handle_state, sock)
    /\ ev' = Append(ev, <<n_close, "srt_close", sock>>)
    /\ ctl_pc' = "Closed"
    /\ UNCHANGED <<dir, i_chunk_size, spin, control, polled, ret_open, sock, fifo, queue, app_pc,
                   freed, leaked, n_close>>
    /\ UNCHANGED <<thrVars, inVars, outVars>>

\* A repeated Close crashing in one of its operations.
CloseCrash ==
    /\ Again
    /\ ctl_pc \in {"close_join", "close_release", "close_sock"}
    /\ ctl_pc' = "crashed"
    /\ UNCHANGED <<dir, i_chunk_size, spin, control, polled, ret_open, sock, handle_state, fifo, queue,
                   app_pc, freed, leaked, ev, n_close>>
    /\ UNCHANGED <<thrVars, inVars, outVars>>

Next ==
    \/ Open
    \/ IngestPoll \/ IngestAlloc \/ IngestRecv \/ IngestCancelInRecv \/ IngestExit
    \/ BlockSRT \/ BlockSRT_Wake \/ Control \/ ControlReturn
    \/ EgressGet \/ EgressSend \/ EgressCancelInSend \/ EgressRelease
    \/ WriteCall \/ WritePut \/ WriteReturn
    \/ CloseCancel \/ CloseJoin \/ CloseRelease \/ CloseSock \/ CloseCrash

Spec == Init /\ [][Next]_vars

\* The scheduling the liveness of the egress shutdown rests on: a thread that
\* can run does run (the pump at block_FifoGet, at a send, at the release;
\* Close at vlc_join).  Nothing is assumed of a cancellation inside
\* srt_sendmsg2, which the transport library may or may not act on.
FairSpec ==
    /\ Spec
    /\ WF_vars(EgressGet) /\ WF_vars(EgressSend) /\ WF_vars(EgressRelease)
    /\ WF_vars(CloseJoin)

\* ================================================================== claims
\* The blocks BlockSRT returned, without the NULL of end of stream.
PulledPkts == SelectSeq(pulled, LAMBDA b : b # NoBlock)

\* C1 - Ingest ordering: the blocks successive BlockSRT calls return are a
\* prefix of the packets received, in order, each as long as its receive
\* reported; while the fifo lives, the packets not yet returned are exactly
\* its contents, in order: none dropped, duplicated or reordered.
C1_IngestOrdering ==
    dir = "access" =>
        LET P == PulledPkts
        IN /\ Len(P) <= Len(rx)
           /\ \A i \in 1..Len(P) :
                P[i].id = rx[i].id /\ P[i].i_buffer = rx[i].stat
           /\ fifo = "alive" =>
                /\ Len(P) + Len(queue) = Len(rx)
                /\ \A j \in 1..Len(queue) :
                     /\ queue[j].id = rx[Len(P) + j].id
                     /\ queue[j].i_buffer = rx[Len(P) + j].stat

\* Two packets of different lengths, neither of the chunk size, both pulled.
C1_Witness ==
    /\ dir = "access"
    /\ Len(PulledPkts) = 2
    /\ PulledPkts[1].i_buffer # PulledPkts[2].i_buffer
    /\ PulledPkts[1].i_buffer # i_chunk_size
    /\ PulledPkts[2].i_buffer # i_chunk_size

\* C2 - Ingest end of stream: once the pump has marked the queue closed, no
\* BlockSRT call that has not yet seen end of stream is left waiting with
\* nobody to signal it.  (After the pump's return nothing signals the fifo.)
C2_NoPullBlocksAfterClose ==
    ~(dir = "access" /\ thread = "exited" /\ ~eof
        /\ app_pc = "wait" /\ ~signalled)

\* The bytes of block id from offset off on, n of them.
Bytes(id, off, n) == [k \in 1..n |-> <<id, off + k>>]

\* The bytes the transport accepted, in the order it accepted them.
RECURSIVE Wire(_)
Wire(log) ==
    IF log = <<>> THEN <<>>
    ELSE (IF Head(log).ret > 0
          THEN Bytes(Head(log).id, Head(log).off, Head(log).ret) ELSE <<>>)
         \o Wire(Tail(log))

WireOf(id) == SelectSeq(Wire(sends), LAMBDA b : b[1] = id)

SendError(id) == \E i \in 1..Len(sends) : sends[i].id = id /\ sends[i].ret = SRT_ERROR

\* C3 - Egress byte preservation: the bytes accepted by the transport are the
\* bytes submitted, in order: when the pump has drained a block with no send
\* error, the bytes accepted for it are all its bytes, in order.
C3_EgressBytesPreserved ==
    (dir = "access_out" /\ pump_pc = "loop" /\ pkt.i_buffer = 0 /\ ~SendError(pkt.id))
        => WireOf(pkt.id) = Bytes(pkt.id, 0, submitted[pkt.id])

Rank(op) ==
    CASE op = "vlc_cancel" -> 1
      [] op = "vlc_join" -> 2
      [] op = "block_FifoRelease" -> 3
      [] op = "srt_close" -> 4
      [] OTHER -> 0

\* C4 - Shutdown ordering: within one Close the events are cancel, join,
\* release of the fifo, close of the handle, in that order; the handle is
\* never closed and the fifo never released while the pump thread runs.
C4_ShutdownOrdering ==
    /\ (handle_state = "closed" \/ fifo = "released") => thread # "running"
    /\ \A i, j \in 1..Len(ev) :
         (i < j /\ ev[i][1] = ev[j][1] /\ ev[i][1] >= 1)
            => Rank(ev[i][2]) < Rank(ev[j][2])
    /\ ctl_pc = "Closed" =>
         \A c \in 1..n_close :
            \A op \in {"vlc_cancel", "vlc_join", "block_FifoRelease", "srt_close"} :
                Count(op, c) = 1

\* The first Close of an egress instance has released the fifo and is about
\* to close the handle: its pump never ends by itself, so it ran when
\* cancelled.
C4_Witness ==
    /\ dir = "access_out" /\ n_close = 1 /\ ctl_pc = "close_sock"
    /\ fifo = "released" /\ handle_state = "open" /\ thread = "joined"
    /\ sends # <<>>

\* C5 - Wake-up on pump exit: in the step in which the ingest pump stops
\* running, for whatever reason, while a BlockSRT call waits on the empty
\* fifo, b_woken is set and the waiter is signalled.
C5_ExitWakesWaiter ==
    [][(dir = "access" /\ thread = "running" /\ thread' # "running"
           /\ app_pc = "wait" /\ queue = <<>>)
          => (b_woken' /\ signalled')]_vars

\* C6 - Failed open: Open reports failure, leaves no thread, and releases
\* what it acquired exactly once, the fifo before the handle.
C6_FailedOpen ==
    ctl_pc = "OpenFailed" =>
        /\ ret_open \in {"VLC_EGENERIC", "VLC_ENOMEM"}
        /\ thread = "none"
        /\ Count("vlc_clone", 0) = 0
        /\ Count("block_FifoRelease", 0) = Count("block_FifoNew", 0)
        /\ Cardinality({i \in 1..Len(ev) : ev[i] = <<0, "srt_close", Handle>>})
             = Count("srt_socket", 0)
        /\ fifo # "alive"
        /\ handle_state # "open"
        /\ \A i, j \in 1..Len(ev) :
             (ev[i][2] = "block_FifoRelease" /\ ev[j] = <<0, "srt_close", Handle>>)
                => i < j

\* The thread could not be created: handle and fifo were both acquired and
\* both released.
C6_Witness ==
    /\ ctl_pc = "OpenFailed"
    /\ Count("srt_socket", 0) = 1 /\ Count("block_FifoNew", 0) = 1
    /\ fifo = "released" /\ handle_state = "closed"

CloseCount(op) == Cardinality({i \in 1..Len(ev) : ev[i][1] >= 1 /\ ev[i][2] = op})

\* C7 - Idempotent shutdown: whatever the number of Close calls, the
\* process does not crash and the thread is joined, the fifo released and the
\* handle closed at most once.
C7_CloseIdempotent ==
    /\ ctl_pc # "crashed"
    /\ CloseCount("vlc_join") <= 1
    /\ CloseCount("block_FifoRelease") <= 1
    /\ CloseCount("srt_close") <= 1

\* C8 - Egress send-error policy: after a send on a block reported an error
\* no further send is made for that block (stated for a chunk size above 0,
\* where every send offers bytes).
C8_NoSendAfterError ==
    i_chunk_size > 0 =>
        \A i, j \in 1..Len(sends) :
            (i < j /\ sends[i].ret = SRT_ERROR) => sends[j].id # sends[i].id

\* C9 - The egress pump never ends by itself: its thread function never
\* returns, the thread ends only once cancellation was requested, and with a
\* send error behind it and no cancellation it is still in its loop.
C9_EgressNeverSelfTerminates ==
    dir = "access_out" =>
        /\ thread # "exited"
        /\ thread \in {"cancelled", "joined"} => cancel
        /\ (thread = "running" /\ ~cancel) => pump_pc \in {"get", "loop"}

\* After a send error on one block a later block was dequeued and sent, and
\* the pump is still running.
C9_Witness ==
    /\ dir = "access_out" /\ thread = "running" /\ ~cancel
    /\ \E i, j \in 1..Len(sends) :
         /\ i < j /\ sends[i].ret = SRT_ERROR
         /\ sends[j].id > sends[i].id /\ sends[j].ret > 0

RECURSIVE SumSubmitted(_)
SumSubmitted(ids) ==
    IF ids = <<>> THEN 0 ELSE submitted[Head(ids)] + SumSubmitted(Tail(ids))

\* C10 - push() hand-off: the blocks put on the fifo are the blocks of the
\* chains passed to Write, each once, in order; the fifo holds the latest of
\* them, untouched; a Write that returned has put its whole chain and
\* returned the sum of the lengths, whatever was sent so far.
C10_WriteHandOff ==
    dir = "access_out" =>
        /\ enq = [i \in 1..Len(enq) |-> i]
        /\ enq \o IdsOf(p_buffer) = [i \in 1..Len(submitted) |-> i]
        /\ fifo = "alive" =>
             \A j \in 1..Len(queue) :
                /\ queue[j].id = Len(enq) - Len(queue) + j
                /\ queue[j].p_buffer = 0
                /\ queue[j].i_buffer = submitted[queue[j].id]
        /\ \A w \in 1..Len(writes) :
             writes[w].done =>
                /\ \A k \in 1..Len(writes[w].ids) : writes[w].ids[k] <= Len(enq)
                /\ writes[w].ret = SumSubmitted(writes[w].ids)

\* A Write of a chain of two non-empty blocks returned before anything was
\* sent; both are on the fifo.
C10_Witness ==
    /\ dir = "access_out" /\ app_pc = "idle" /\ sends = <<>>
    /\ Len(writes) = 1 /\ writes[1].done /\ Len(writes[1].ids) = 2
    /\ submitted[1] > 0 /\ submitted[2] > 0
    /\ IdsOf(queue) = <<1, 2>>

\* The ids of the blocks in s.
IdSet(s) == {s[i].id : i \in 1..Len(s)}

\* Every block of ids is accounted for once: released once and held by
\* nobody, or held by the application (kept) and not released.
Settled(ids, kept) ==
    \A id \in ids :
        IF id \in kept THEN ~BagIn(id, freed) ELSE CopiesIn(id, freed) = 1

\* C11 - Buffer ownership: no block is lost without a release, released
\* twice, or still held (by the fifo, the pump or the application) once
\* released; when the first Close has returned every block the ingest pump
\* received into or Write put on the fifo is released exactly once, the blocks
\* handed to the application by BlockSRT excepted, which it owns.
C11_BufferOwnership ==
    /\ leaked = {}
    /\ \A id \in BagToSet(freed) :
         /\ CopiesIn(id, freed) = 1
         /\ id \notin IdSet(queue) \cup IdSet(PulledPkts) \cup IdSet(p_buffer)
         /\ id # pkt.id
    /\ (ctl_pc = "Closed" /\ n_close = 1) =>
         IF dir = "access"
         THEN Settled({rx[i].id : i \in 1..Len(rx)}, IdSet(PulledPkts))
         ELSE Settled({enq[i] : i \in 1..Len(enq)}, {})

\* What a Control call must have answered, for C12.
ControlOk(c) ==
    /\ c.query \in {"STREAM_CAN_SEEK", "STREAM_CAN_FASTSEEK",
                    "STREAM_CAN_PAUSE", "STREAM_CAN_CONTROL_PACE"} =>
          c.i_ret = "VLC_SUCCESS" /\ c.wrote = "bool" /\ c.b = FALSE
    /\ c.query = "STREAM_GET_PTS_DELAY" =>
          c.i_ret = "VLC_SUCCESS" /\ c.wrote = "int64" /\ c.pts = 1000 * c.nc
    /\ c.query \notin {"STREAM_CAN_SEEK", "STREAM_CAN_FASTSEEK",
                       "STREAM_CAN_PAUSE", "STREAM_CAN_CONTROL_PACE",
                       "STREAM_GET_PTS_DELAY"} =>
          c.i_ret = "VLC_EGENERIC" /\ c.wrote = "none"

\* Everything but the record of the Control call and the position of the
\* application.
bridgeVars == <<dir, i_chunk_size, ctl_pc, ret_open, sock, handle_state, fifo,
                queue, b_woken, thread, cancel, pump_pc, pkt,
                signalled, eof, pulled, rx, p_buffer, i_len, writes,
                submitted, enq, sends, freed, leaked, ev, n_close, polled,
                spin>>

\* C12 - Capability query on the ingest adapter: a Control call answers
\* false to can-seek, can-fast-seek, can-pause and can-control-pace, answers
\* the presentation-delay query with 1000 times network-caching, returns
\* success for these five and an error for any other query, and changes
\* nothing of the state of the bridge.
C12_ControlQuery ==
    [][control' # control =>
         /\ control' # NoControl => ControlOk(control')
         /\ UNCHANGED bridgeVars]_vars

\* A presentation-delay query was answered with 300000 for a network-caching
\* of 300, on a stream that has delivered a block.
C12_Witness ==
    /\ control.query = "STREAM_GET_PTS_DELAY"
    /\ control.nc = 300 /\ control.pts = 300000
    /\ Len(PulledPkts) >= 1

\* C13 - Partial sends: after each send call of the egress pump the cursor
\* of the buffer has advanced by exactly the number of bytes the transport
\* reported as accepted, so bytes it did not accept are offered again and
\* never skipped.  (Sends that report an error are the matter of C8, a chunk
\* size of 0 that of C19.)
C13_PartialSends ==
    [][(/\ dir = "access_out" /\ i_chunk_size > 0
        /\ sends' # sends
        /\ sends'[Len(sends')].ret # SRT_ERROR)
       => /\ pkt'.p_buffer = pkt.p_buffer + sends'[Len(sends')].ret
          /\ pkt'.i_buffer = pkt.i_buffer - sends'[Len(sends')].ret]_vars

\* C14 - Egress cancellation liveness: once Close has requested the
\* cancellation, the egress pump eventually ends and the join in Close
\* completes, whether the pump waits in the dequeue, is draining a buffer, or
\* the queue still holds buffers.
C14_EgressCancelLiveness ==
    (dir = "access_out" /\ ctl_pc = "close_join" /\ n_close = 1)
        ~> (thread = "joined")

\* C15 - Ingest poll-then-error: in an iteration whose poll reported
\* not-readable (a timeout) the ingest pump enqueues nothing and keeps
\* running, going back to poll, so that it leaves its loop at the poll that
\* reports an error and not before.
C15_PollThenError ==
    [][(/\ dir = "access" /\ thread = "running" /\ ~cancel
        /\ polled = "timeout" /\ pump_pc = "recv" /\ pump_pc' # "recv")
       => (rx' = rx /\ queue' = queue /\ pump_pc' = "poll")]_vars

\* The sends logged for block id.
SendsOf(id) == SelectSeq(sends, LAMBDA e : e.id = id)

\* Every send logged for block id was accepted in full.
AllAccepted(id) == \A i \in 1..Len(sends) : sends[i].id = id => sends[i].ret = sends[i].len

Ceil(a, b) == (a + b - 1) \div b

\* The lengths the claim gives for a buffer of L bytes and a chunk size c.
ChunkLens(L, c) ==
    [i \in 1..Ceil(L, c) |-> IF i < Ceil(L, c) THEN c ELSE L - c * (Ceil(L, c) - 1)]

\* C16 - Chunking: for a buffer of L bytes and a chunk size c > 0, every
\* send accepted in full, the pump issues exactly ceil(L / c) sends for the
\* buffer, each of c bytes but the last, of L - c * (ceil(L / c) - 1) bytes;
\* for L = 3000 and c = 1316 the lengths are 1316, 1316, 368.
C16_Chunking ==
    /\ (/\ dir = "access_out" /\ i_chunk_size > 0
        /\ pump_pc = "loop" /\ pkt.i_buffer = 0 /\ AllAccepted(pkt.id))
       => /\ Len(SendsOf(pkt.id)) = Ceil(submitted[pkt.id], i_chunk_size)
          /\ [i \in 1..Len(SendsOf(pkt.id)) |-> SendsOf(pkt.id)[i].len]
                = ChunkLens(submitted[pkt.id], i_chunk_size)
          /\ DrainLens(submitted[pkt.id], i_chunk_size)
                = ChunkLens(submitted[pkt.id], i_chunk_size)
    /\ DrainLens(3000, 1316) = <<1316, 1316, 368>>

\* A buffer longer than the chunk size was drained in two sends, each
\* accepted in full.
C16_Witness ==
    /\ dir = "access_out" /\ i_chunk_size = 1
    /\ pump_pc = "loop" /\ pkt.i_buffer = 0 /\ pkt.id # 0
    /\ submitted[pkt.id] = 2
    /\ AllAccepted(pkt.id) /\ Len(SendsOf(pkt.id)) = 2

\* The pump holds a block that was submitted with a length of 0.
HoldsZeroLength ==
    /\ dir = "access_out" /\ thread = "running" /\ pump_pc = "loop"
    /\ pkt.id # 0 /\ submitted[pkt.id] = 0

\* C17 - Zero-length buffer: a buffer of length 0 causes no send call, is
\* released by the pump, and does not stall it: holding such a buffer the
\* pump can take its next step, and that step releases the buffer and is
\* back at the dequeue, from where later buffers are processed as any other.
C17_ZeroLengthBuffer ==
    /\ [](\A i \in 1..Len(sends) : submitted[sends[i].id] # 0)
    /\ [](HoldsZeroLength => ENABLED EgressRelease)
    /\ [][(HoldsZeroLength /\ pump_pc' # pump_pc)
            => /\ pump_pc' = "get" /\ thread' = thread
               /\ sends' = sends
               /\ CopiesIn(pkt.id, freed') = 1]_vars

\* A zero-length buffer was released without a send, and the buffer pushed
\* after it was sent and released too.
C17_Witness ==
    /\ dir = "access_out" /\ Len(submitted) = 2
    /\ submitted[1] = 0 /\ submitted[2] > 0
    /\ CopiesIn(1, freed) = 1 /\ CopiesIn(2, freed) = 1
    /\ SendsOf(1) = <<>> /\ SendsOf(2) # <<>>
    /\ pump_pc = "get" /\ thread = "running"

\* C18 - No spurious EOF: BlockSRT returns NULL with eof set only when the
\* pump has left its receive loop (its thread function has returned) and the
\* fifo is empty; while the pump runs a BlockSRT call waits or returns a
\* block, however the pump's puts and its setting of b_woken interleave
\* with the reset of b_woken by BlockSRT.
C18_NoSpuriousEOF ==
    /\ [](b_woken => thread \in {"exited", "joined"})
    /\ [][(Len(pulled') > Len(pulled) /\ pulled'[Len(pulled')] = NoBlock)
            => (thread \in {"exited", "joined"} /\ queue = <<>> /\ eof')]_vars
    /\ [][(dir = "access" /\ thread = "running" /\ pulled' # pulled)
            => (queue # <<>> /\ pulled' = Append(pulled, Head(queue)))]_vars

\* End of stream was returned after a block had been.
C18_Witness ==
    /\ dir = "access" /\ eof
    /\ Len(pulled) >= 2 /\ pulled[Len(pulled)] = NoBlock
    /\ Len(PulledPkts) >= 1

\* C19 - Egress drain progress: for every value of chunk-size, 0 included,
\* and every non-empty buffer, each iteration of the inner send loop leaves
\* strictly less of the buffer to send, so the loop ends after finitely many
\* sends.
C19_DrainProgress ==
    [][(/\ dir = "access_out" /\ pump_pc = "loop" /\ pkt.i_buffer # 0
        /\ sends' # sends)
       => pkt'.i_buffer < pkt.i_buffer]_vars

\* C20 - Transport close only on an open handle: over every path through
\* Open and Close, in both directions, srt_close is called only on a handle
\* that a successful srt_socket returned and that has not been closed
\* before; never on the zero-initialised sock field, never on the error
\* value of a failed srt_socket.  (Open, and the first Close: a repeated
\* Close is the matter of C7.)
C20_CloseOnlyOpenHandle ==
    \A i \in 1..Len(ev) :
        (ev[i][2] = "srt_close" /\ ev[i][1] <= 1) =>
            /\ ev[i][3] # ZeroHandle /\ ev[i][3] # SRT_ERROR
            /\ \E j \in 1..(i - 1) : ev[j][2] = "srt_socket" /\ ev[j][3] = ev[i][3]
            /\ \A j \in 1..(i - 1) : ~(ev[j][2] = "srt_close" /\ ev[j][3] = ev[i][3])

====
